---- MODULE Spec2Model ----
(***************************************************************************)
(* A model of gpio_gamepad.py: the configuration parser, configuration     *)
(* loading and start-up, the press/release router, the pointer motion      *)
(* thread and shutdown.                                                    *)
(*                                                                         *)
(* Threads.  press() and release() run on the thread that delivers a       *)
(* pin's edge; edges of one pin alternate and are serialized.  Whether     *)
(* callbacks of different pins may overlap depends on the pin factory      *)
(* behind gpiozero: `serialized' is TRUE when one thread delivers every    *)
(* callback and FALSE when each pin has a thread of its own.  move_mouse   *)
(* always runs on a thread of its own, the main thread sits in pause().    *)
(* A step of the model is one access to shared state (CPython switches     *)
(* threads between bytecodes, never inside a dict store or a write()).     *)
(***************************************************************************)
EXTENDS Integers, Sequences, FiniteSets, TLC

VARIABLES
    \* the environment
    absent,                 \* names evdev.ecodes lacks (getattr(e, n, None))
    serialized,             \* one callback thread for all pins
    \* GPIOGamepad
    config,                 \* self.config: sequence of <<gpio_pin, button>>
    mouse_speed,            \* self.mouse_speed
    analog_state,           \* self.analog_state
    mouse_movement_active,  \* self.mouse_movement_active (a dict)
    mouse_vector,           \* self.mouse_vector
    gamepad,                \* self.gamepad: [open, pending events since syn]
    mouse,                  \* self.mouse
    \* threads
    handler,                \* per pin: the press()/release() call, its locals
    engine,                 \* per thread slot: a move_mouse loop
    main,                   \* the main thread's place in run()/cleanup()
    buttons,                \* self.buttons: <<pin, bound button name>> per Button
    \* start-up
    file,                   \* the configuration file: whether it exists, its lines
    lineno,                 \* lines of the file read so far
    startup,                \* the main thread's place in __init__
    exit_status,            \* {} while running, {1} after sys.exit(1)
    parsed,                 \* results of parse_config_line (parser runs only)
    called,                 \* the callbacks an edge on a pin has invoked
    \* history
    lastAbs,                \* per axis, the value of the last EV_ABS event written
    lastEdge,               \* the edge delivered last: <<pin, "press"|"release">>
    seenY,                  \* per engine: y values paired with its x since it read x
    emitsQuiet              \* per engine: flushes since the active set went empty

rt_vars == <<absent, serialized, config, mouse_speed, analog_state,
             mouse_movement_active, mouse_vector, gamepad, mouse, buttons,
             handler, engine, main, lastEdge, seenY, emitsQuiet, lastAbs>>

boot_vars == <<file, lineno, startup, exit_status, parsed, called>>

vars == <<rt_vars, boot_vars>>

None == "None"

\* Largest number of move_mouse threads alive at once in the model.
MaxEngines == 2

Engines == 1..MaxEngines

-----------------------------------------------------------------------------
(* The action registry: BUTTON_MAP, JOYSTICK_MAP, MOUSE_MAP.               *)

AllEcodes ==
    {"BTN_SOUTH", "BTN_EAST", "BTN_NORTH", "BTN_WEST", "BTN_TL", "BTN_TR",
     "BTN_SELECT", "BTN_START", "BTN_THUMBL", "BTN_THUMBR",
     "BTN_DPAD_UP", "BTN_DPAD_DOWN", "BTN_DPAD_LEFT", "BTN_DPAD_RIGHT",
     "ABS_X", "ABS_Y", "ABS_RX", "ABS_RY",
     "BTN_LEFT", "BTN_RIGHT", "BTN_MIDDLE"}

\* a lookup that finds every code
getattr_found(name) == name

\* getattr(e, name, None)
getattr(name) == IF name \in AllEcodes \ absent THEN name ELSE None

PlainButtons ==
    {"BTN_SOUTH", "BTN_EAST", "BTN_NORTH", "BTN_WEST", "BTN_TL", "BTN_TR",
     "BTN_SELECT", "BTN_START", "BTN_THUMBL", "BTN_THUMBR"}

DpadAttr ==
    [DPAD_UP |-> "BTN_DPAD_UP", DPAD_DOWN |-> "BTN_DPAD_DOWN",
     DPAD_LEFT |-> "BTN_DPAD_LEFT", DPAD_RIGHT |-> "BTN_DPAD_RIGHT"]

\* A tuple value is a record with tuple = TRUE; a bare code has tuple = FALSE.
BUTTON_MAP ==
    [n \in PlainButtons \cup DOMAIN DpadAttr |->
        IF n \in PlainButtons
        THEN [tuple |-> FALSE, kind |-> "key", code |-> getattr(n), dir |-> 0]
        ELSE [tuple |-> TRUE, kind |-> "dpad", code |-> getattr(DpadAttr[n]),
              dir |-> 0]]

JoyAxis ==
    [JOY1_UP |-> "ABS_Y", JOY1_DOWN |-> "ABS_Y",
     JOY1_LEFT |-> "ABS_X", JOY1_RIGHT |-> "ABS_X",
     JOY2_UP |-> "ABS_RY", JOY2_DOWN |-> "ABS_RY",
     JOY2_LEFT |-> "ABS_RX", JOY2_RIGHT |-> "ABS_RX"]

JoyDir ==
    [JOY1_UP |-> -1, JOY1_DOWN |-> 1, JOY1_LEFT |-> -1, JOY1_RIGHT |-> 1,
     JOY2_UP |-> -1, JOY2_DOWN |-> 1, JOY2_LEFT |-> -1, JOY2_RIGHT |-> 1]

JOYSTICK_MAP ==
    [n \in DOMAIN JoyAxis |->
        [tuple |-> TRUE, kind |-> "analog", code |-> getattr(JoyAxis[n]),
         dir |-> JoyDir[n]]]

MouseMoves == {"MOUSE_UP", "MOUSE_DOWN", "MOUSE_LEFT", "MOUSE_RIGHT"}

MouseClickAttr ==
    [MOUSE_BTN_LEFT |-> "BTN_LEFT", MOUSE_BTN_RIGHT |-> "BTN_RIGHT",
     MOUSE_BTN_MIDDLE |-> "BTN_MIDDLE"]

MOUSE_MAP ==
    [n \in MouseMoves \cup DOMAIN MouseClickAttr |->
        CASE n = "MOUSE_UP"    -> [tuple |-> TRUE, kind |-> "move", code |-> "REL_Y", dir |-> -1]
          [] n = "MOUSE_DOWN"  -> [tuple |-> TRUE, kind |-> "move", code |-> "REL_Y", dir |-> 1]
          [] n = "MOUSE_LEFT"  -> [tuple |-> TRUE, kind |-> "move", code |-> "REL_X", dir |-> -1]
          [] n = "MOUSE_RIGHT" -> [tuple |-> TRUE, kind |-> "move", code |-> "REL_X", dir |-> 1]
          [] OTHER -> [tuple |-> TRUE, kind |-> "click",
                       code |-> getattr(MouseClickAttr[n]), dir |-> 0]]

\* The value press() stores and writes for an analog direction (line 224).
AXIS_MAX == 32767

-----------------------------------------------------------------------------
(* Dispatch: the branch press() and release() take for a button name       *)
(* (lines 201-232 and 270-299).  The two functions test the same           *)
(* conditions in the same order.                                           *)

\* the branch taken: "key", "dpad", "analog", "move", "click" or "unhandled"
Dispatch(button_name) ==
    LET inB == button_name \in DOMAIN BUTTON_MAP
        inJ == button_name \in DOMAIN JOYSTICK_MAP
        inM == button_name \in DOMAIN MOUSE_MAP
    IN  IF inB /\ BUTTON_MAP[button_name].tuple
             /\ BUTTON_MAP[button_name].kind = "dpad"
             /\ BUTTON_MAP[button_name].code # None
        THEN "dpad"
        ELSE IF inB /\ ~BUTTON_MAP[button_name].tuple
                    /\ BUTTON_MAP[button_name].code # None
        THEN "key"
        ELSE IF inJ /\ JOYSTICK_MAP[button_name].kind = "dpad"
                    /\ JOYSTICK_MAP[button_name].code # None
        THEN "dpad"
        ELSE IF inJ /\ JOYSTICK_MAP[button_name].kind = "analog"
                    /\ JOYSTICK_MAP[button_name].code # None
        THEN "analog"
        ELSE IF inM /\ MOUSE_MAP[button_name].kind = "move"
        THEN "move"
        ELSE IF inM /\ MOUSE_MAP[button_name].kind = "click"
                    /\ MOUSE_MAP[button_name].code # None
        THEN "click"
        ELSE "unhandled"

\* the local variables of the taken branch: its kind, and the code and the
\* direction of the mapping it works with (lines 202, 215, 222-223, 231-234)
Taken(button_name) ==
    LET kind == Dispatch(button_name)
        m == IF kind \in {"key", "dpad"} /\ button_name \in DOMAIN BUTTON_MAP
             THEN BUTTON_MAP[button_name]
             ELSE IF kind \in {"dpad", "analog"} THEN JOYSTICK_MAP[button_name]
             ELSE IF kind \in {"move", "click"} THEN MOUSE_MAP[button_name]
             ELSE [code |-> None, dir |-> 0]
    IN  [kind |-> kind, code |-> m.code, dir |-> m.dir]

-----------------------------------------------------------------------------
(* The Button objects setup_buttons made: one per entry of self.config,    *)
(* its callbacks bound to the entry's button name (lines 191-195).         *)

Pins == {buttons[i][1] : i \in DOMAIN buttons}

\* the button name the callbacks of pin p were bound to (lambda b=button_name)
Bound(p) == buttons[CHOOSE i \in DOMAIN buttons : buttons[i][1] = p][2]

-----------------------------------------------------------------------------
(* The virtual devices (evdev.UInput): write() queues an event, syn()      *)
(* closes the batch of events queued since the previous syn(), close()     *)
(* releases the handle; write() and syn() on a released handle raise.      *)
(* Every event carries `by', the thread that wrote it (history only).      *)

PinThread(p) == <<"pin", p>>
EngineThread(i) == <<"engine", i>>

Event(by, type, code, value) ==
    [by |-> by, type |-> type, code |-> code, value |-> value]

\* UInput.write(type, code, value) on an open device
UWrite(dev, ev) == [dev EXCEPT !.pending = Append(@, ev)]

\* UInput.syn() on an open device
USyn(dev) == [dev EXCEPT !.pending = <<>>]

\* UInput.close()
UClose(dev) == [dev EXCEPT !.open = FALSE]

-----------------------------------------------------------------------------
(* Shared helpers of the router.                                           *)

\* any(self.mouse_movement_active.values())
AnyActive == \E n \in DOMAIN mouse_movement_active : mouse_movement_active[n]

\* self.mouse_movement_active[name] = value
SetActive(name, value) ==
    [n \in DOMAIN mouse_movement_active \cup {name} |->
        IF n = name THEN value ELSE mouse_movement_active[n]]

Idle(p) == handler[p].pc = "idle"

\* a press() of a move action that has not returned yet
PressMoveInFlight(p) ==
    /\ handler[p].edge = "press"
    /\ handler[p].pc \in {"vector", "was_moving", "active", "start"}

Alive(i) == engine[i].pc \notin {"dead", "raised"}

\* move_mouse threads the model can still start
FreeSlots == {i \in Engines : engine[i].pc = "dead"}

\* no move action is marked active and no press() of one is under way
Quiet == ~AnyActive /\ \A p \in Pins : ~PressMoveInFlight(p)

\* the first shared-state access of the branch dispatch takes
FirstStep(kind) ==
    CASE kind \in {"key", "dpad", "click"} -> "write"
      [] kind = "analog" -> "axis"
      [] kind = "move" -> "vector"
      [] OTHER -> "unhandled"

\* the device a branch writes to
IsMouseKind(kind) == kind \in {"move", "click"}

\* The edge source: pin p is idle, the process runs, and with one callback
\* thread no other callback is running.  A press that may start a thread
\* needs a free slot of the model.
CanDeliver(p) ==
    /\ main # "exited"
    /\ Idle(p)
    /\ serialized => \A q \in Pins : Idle(q)

Deliver(p, edge) ==
    /\ handler' = [handler EXCEPT ![p] =
           [pc |-> FirstStep(Taken(Bound(p)).kind), edge |-> edge,
            was_moving |-> FALSE, m |-> Taken(Bound(p))]]
    /\ lastEdge' = <<p, edge>>

\* a vector store seen by the engines that have read x and not yet y
NoteVector(v) ==
    [i \in Engines |->
        IF engine[i].pc = "read_y" /\ v.x = engine[i].x
        THEN seenY[i] \cup {v.y} ELSE seenY[i]]

\* the exception a write to a released handle raises ends the thread
Raise(p) == handler' = [handler EXCEPT ![p].pc = "raised"]

-----------------------------------------------------------------------------
(* press(button_name), on the callback thread of pin p.                    *)

\* lines 199-232: the call and its dispatch
press(p) ==
    /\ CanDeliver(p)
    /\ handler[p].edge = "release"
    /\ handler[p].m.kind = "move" =>
           Cardinality(FreeSlots) > Cardinality({q \in Pins : PressMoveInFlight(q)})
    /\ Deliver(p, "press")
    /\ emitsQuiet' = IF handler[p].m.kind = "move"
                     THEN [i \in Engines |-> 0] ELSE emitsQuiet
    /\ UNCHANGED <<boot_vars, lastAbs, buttons, absent, serialized, config, mouse_speed, analog_state,
                   mouse_movement_active, mouse_vector, gamepad, mouse,
                   engine, main, seenY>>

\* self.<device>.write(e.EV_KEY, code, value): lines 205, 210, 262 (value 1)
\* and 274, 279, 309 (value 0)
WriteKey(p, value) ==
    LET m == handler[p].m
        ev == Event(PinThread(p), "EV_KEY", m.code, value)
    IN  /\ handler[p].pc = "write"
        /\ IF m.kind = "click"
           THEN /\ IF mouse.open
                   THEN /\ mouse' = UWrite(mouse, ev)
                        /\ handler' = [handler EXCEPT ![p].pc = "syn"]
                   ELSE /\ Raise(p)
                        /\ UNCHANGED mouse
                /\ UNCHANGED gamepad
           ELSE /\ IF gamepad.open
                   THEN /\ gamepad' = UWrite(gamepad, ev)
                        /\ handler' = [handler EXCEPT ![p].pc = "syn"]
                   ELSE /\ Raise(p)
                        /\ UNCHANGED gamepad
                /\ UNCHANGED mouse
        /\ UNCHANGED <<boot_vars, lastAbs, buttons, absent, serialized, config, mouse_speed, analog_state,
                       mouse_movement_active, mouse_vector, engine, main,
                       lastEdge, seenY, emitsQuiet>>

\* self.<device>.syn() and the return: lines 206-208, 211-213, 227-229,
\* 263-265 and 275-277, 280-282, 294-296, 310-312
Syn(p) ==
    /\ handler[p].pc = "syn"
    /\ IF handler[p].m.kind = "click"
       THEN /\ IF mouse.open
               THEN /\ mouse' = USyn(mouse)
                    /\ handler' = [handler EXCEPT ![p].pc = "idle"]
               ELSE /\ Raise(p)
                    /\ UNCHANGED mouse
            /\ UNCHANGED gamepad
       ELSE /\ IF gamepad.open
               THEN /\ gamepad' = USyn(gamepad)
                    /\ handler' = [handler EXCEPT ![p].pc = "idle"]
               ELSE /\ Raise(p)
                    /\ UNCHANGED gamepad
            /\ UNCHANGED mouse
    /\ UNCHANGED <<boot_vars, lastAbs, buttons, absent, serialized, config, mouse_speed, analog_state,
                   mouse_movement_active, mouse_vector, engine, main,
                   lastEdge, seenY, emitsQuiet>>

\* a press that writes a key-up
press_write_key_up(p) == handler[p].edge = "press" /\ WriteKey(p, 0)

press_write_key(p) == handler[p].edge = "press" /\ WriteKey(p, 1)

press_syn(p) == handler[p].edge = "press" /\ Syn(p)

\* a press that scales with the wrong bound of the 16-bit range
PressValue_32768(direction) == direction * (AXIS_MAX + 1)

\* line 224: value = direction * 32767
PressValue(direction) == direction * AXIS_MAX

\* self.analog_state[axis] = value: line 225 (press), line 292 (release, 0)
SetAxis(p, value) ==
    /\ handler[p].pc = "axis"
    /\ analog_state' = [analog_state EXCEPT ![handler[p].m.code] = value]
    /\ handler' = [handler EXCEPT ![p].pc = "abs"]
    /\ UNCHANGED <<boot_vars, lastAbs, buttons, absent, serialized, config, mouse_speed,
                   mouse_movement_active, mouse_vector, gamepad, mouse,
                   engine, main, lastEdge, seenY, emitsQuiet>>

\* self.gamepad.write(e.EV_ABS, axis, value): line 226 (press), 293 (release)
WriteAbs(p, value) ==
    /\ handler[p].pc = "abs"
    /\ IF gamepad.open
       THEN /\ gamepad' = UWrite(gamepad,
                   Event(PinThread(p), "EV_ABS", handler[p].m.code, value))
            /\ lastAbs' = [lastAbs EXCEPT ![handler[p].m.code] = value]
            /\ handler' = [handler EXCEPT ![p].pc = "syn"]
       ELSE /\ Raise(p)
            /\ UNCHANGED <<gamepad, lastAbs>>
    /\ UNCHANGED <<boot_vars, buttons, absent, serialized, config, mouse_speed, analog_state,
                   mouse_movement_active, mouse_vector, mouse, engine, main,
                   lastEdge, seenY, emitsQuiet>>

\* lines 222-225
press_analog_state(p) ==
    /\ handler[p].edge = "press"
    /\ SetAxis(p, PressValue(handler[p].m.dir))

\* line 226
press_analog_write(p) ==
    /\ handler[p].edge = "press"
    /\ WriteAbs(p, PressValue(handler[p].m.dir))

\* self.mouse_vector['x' or 'y'] = value: lines 235-238 (press), 301-304
SetVector(p, value) ==
    LET v == IF handler[p].m.code = "REL_X"
             THEN [mouse_vector EXCEPT !.x = value]
             ELSE [mouse_vector EXCEPT !.y = value]
    IN  /\ handler[p].pc = "vector"
        /\ mouse_vector' = v
        /\ seenY' = NoteVector(v)
        /\ handler' = [handler EXCEPT ![p].pc =
               IF handler[p].edge = "press" THEN "was_moving" ELSE "active"]
        /\ UNCHANGED <<boot_vars, lastAbs, buttons, absent, serialized, config, mouse_speed, analog_state,
                       mouse_movement_active, gamepad, mouse, engine, main,
                       lastEdge, emitsQuiet>>

\* lines 233-238
press_move_vector(p) ==
    /\ handler[p].edge = "press"
    /\ SetVector(p, handler[p].m.dir)

\* line 239: was_moving = any(self.mouse_movement_active.values())
press_was_moving(p) ==
    /\ handler[p].edge = "press"
    /\ handler[p].pc = "was_moving"
    /\ handler' = [handler EXCEPT ![p].was_moving = AnyActive, ![p].pc = "active"]
    /\ UNCHANGED <<boot_vars, lastAbs, buttons, absent, serialized, config, mouse_speed, analog_state,
                   mouse_movement_active, mouse_vector, gamepad, mouse,
                   engine, main, lastEdge, seenY, emitsQuiet>>

\* line 240: self.mouse_movement_active[button_name] = True; line 241
press_active(p) ==
    /\ handler[p].edge = "press"
    /\ handler[p].pc = "active"
    /\ mouse_movement_active' = SetActive(Bound(p), TRUE)
    /\ handler' = [handler EXCEPT ![p].pc =
           IF handler[p].was_moving THEN "idle" ELSE "start"]
    /\ UNCHANGED <<boot_vars, lastAbs, buttons, absent, serialized, config, mouse_speed, analog_state,
                   mouse_vector, gamepad, mouse, engine, main, lastEdge,
                   seenY, emitsQuiet>>

\* line 258: threading.Thread(target=move_mouse, daemon=True).start()
press_start_thread(p) ==
    /\ handler[p].edge = "press"
    /\ handler[p].pc = "start"
    /\ FreeSlots # {}
    /\ LET i == CHOOSE j \in FreeSlots : \A k \in FreeSlots : j <= k
       IN  engine' = [engine EXCEPT ![i] = [pc |-> "check", x |-> 0, y |-> 0]]
    /\ handler' = [handler EXCEPT ![p].pc = "idle"]
    /\ UNCHANGED <<boot_vars, lastAbs, buttons, absent, serialized, config, mouse_speed, analog_state,
                   mouse_movement_active, mouse_vector, gamepad, mouse, main,
                   lastEdge, seenY, emitsQuiet>>

\* line 266 / 313: print("Unhandled ...") and the return
Unhandled(p) ==
    /\ handler[p].pc = "unhandled"
    /\ handler' = [handler EXCEPT ![p].pc = "idle"]
    /\ UNCHANGED <<boot_vars, lastAbs, buttons, absent, serialized, config, mouse_speed, analog_state,
                   mouse_movement_active, mouse_vector, gamepad, mouse,
                   engine, main, lastEdge, seenY, emitsQuiet>>

press_unhandled(p) == handler[p].edge = "press" /\ Unhandled(p)

-----------------------------------------------------------------------------
(* release(button_name), on the callback thread of pin p.                  *)

\* lines 268-299: the call and its dispatch
release(p) ==
    /\ CanDeliver(p)
    /\ handler[p].edge = "press"
    /\ Deliver(p, "release")
    /\ UNCHANGED <<boot_vars, lastAbs, buttons, absent, serialized, config, mouse_speed, analog_state,
                   mouse_movement_active, mouse_vector, gamepad, mouse,
                   engine, main, seenY, emitsQuiet>>

release_write_key(p) == handler[p].edge = "release" /\ WriteKey(p, 0)

release_syn(p) == handler[p].edge = "release" /\ Syn(p)

\* lines 291-292
release_analog_state(p) == handler[p].edge = "release" /\ SetAxis(p, 0)

\* line 293
release_analog_write(p) == handler[p].edge = "release" /\ WriteAbs(p, 0)

\* lines 300-304
release_move_vector(p) == handler[p].edge = "release" /\ SetVector(p, 0)

\* line 305: self.mouse_movement_active[button_name] = False, and the return
release_active(p) ==
    /\ handler[p].edge = "release"
    /\ handler[p].pc = "active"
    /\ mouse_movement_active' = SetActive(Bound(p), FALSE)
    /\ handler' = [handler EXCEPT ![p].pc = "idle"]
    /\ UNCHANGED <<boot_vars, lastAbs, buttons, absent, serialized, config, mouse_speed, analog_state,
                   mouse_vector, gamepad, mouse, engine, main, lastEdge,
                   seenY, emitsQuiet>>

release_unhandled(p) == handler[p].edge = "release" /\ Unhandled(p)

-----------------------------------------------------------------------------
(* move_mouse, the loop of a motion thread (lines 244-257).                *)

\* floor of the square root of n >= 0
ISqrt(n) == CHOOSE k \in 0..n : k * k <= n /\ (k + 1) * (k + 1) > n

\* the deltas without the division by the magnitude
IntNorm_unnormalized(c, x, y, speed) == c * speed

\* int((c / magnitude) * self.mouse_speed) for a component c of the vector
\* (x, y) with magnitude = math.sqrt(x*x + y*y) > 0 (lines 248-255): the
\* magnitude is 1 or sqrt(2), and int() truncates toward zero.
IntNorm(c, x, y, speed) ==
    LET m2 == x * x + y * y
        a == IF speed < 0 THEN -speed ELSE speed
        k == IF m2 = 1 THEN a ELSE ISqrt((a * a) \div 2)
    IN  IF c * speed < 0 THEN -k ELSE IF c * speed > 0 THEN k ELSE 0

\* a loop that runs while the pointer vector is set instead
WhileCondition_vector == mouse_vector.x # 0 \/ mouse_vector.y # 0

\* line 245: the condition of the while loop
WhileCondition == AnyActive

\* line 245: while any(self.mouse_movement_active.values()); leaving the
\* loop ends the thread
move_mouse_check(i) ==
    /\ main # "exited"
    /\ engine[i].pc = "check"
    /\ engine' = [engine EXCEPT ![i].pc =
           IF WhileCondition THEN "read_x" ELSE "dead"]
    /\ UNCHANGED <<boot_vars, lastAbs, buttons, absent, serialized, config, mouse_speed, analog_state,
                   mouse_movement_active, mouse_vector, gamepad, mouse,
                   handler, main, lastEdge, seenY, emitsQuiet>>

\* line 246: x = self.mouse_vector['x']
move_mouse_read_x(i) ==
    /\ main # "exited"
    /\ engine[i].pc = "read_x"
    /\ engine' = [engine EXCEPT ![i].x = mouse_vector.x, ![i].pc = "read_y"]
    /\ seenY' = [seenY EXCEPT ![i] = {mouse_vector.y}]
    /\ UNCHANGED <<boot_vars, lastAbs, buttons, absent, serialized, config, mouse_speed, analog_state,
                   mouse_movement_active, mouse_vector, gamepad, mouse,
                   handler, main, lastEdge, emitsQuiet>>

\* where the loop goes once x and y are read: lines 248-252, 254, 257
AfterRead(x, y) ==
    IF x * x + y * y > 0
    THEN (IF x # 0 THEN "write_x" ELSE "write_y")
    ELSE "check"

\* line 247: y = self.mouse_vector['y'], and the tests of lines 248-254; with
\* a zero magnitude the loop sleeps (line 257) and checks again
move_mouse_read_y(i) ==
    /\ main # "exited"
    /\ engine[i].pc = "read_y"
    /\ LET x == engine[i].x
           y == mouse_vector.y
           to == AfterRead(x, y)
       IN  engine' = [engine EXCEPT ![i] =
               IF to = "check" THEN [pc |-> "check", x |-> 0, y |-> 0]
               ELSE [pc |-> to, x |-> x, y |-> y]]
    /\ seenY' = [seenY EXCEPT ![i] = {}]
    /\ UNCHANGED <<boot_vars, lastAbs, buttons, absent, serialized, config, mouse_speed, analog_state,
                   mouse_movement_active, mouse_vector, gamepad, mouse,
                   handler, main, lastEdge, emitsQuiet>>

\* the relative-motion events of one pass: lines 252-255
RelX(i) ==
    Event(EngineThread(i), "EV_REL", "REL_X",
          IntNorm(engine[i].x, engine[i].x, engine[i].y, mouse_speed))

RelY(i) ==
    Event(EngineThread(i), "EV_REL", "REL_Y",
          IntNorm(engine[i].y, engine[i].x, engine[i].y, mouse_speed))

\* lines 252-253: self.mouse.write(e.EV_REL, e.REL_X, int(norm_x))
move_mouse_write_x(i) ==
    /\ main # "exited"
    /\ engine[i].pc = "write_x"
    /\ IF mouse.open
       THEN /\ mouse' = UWrite(mouse, RelX(i))
            /\ engine' = [engine EXCEPT ![i].pc =
                   IF engine[i].y # 0 THEN "write_y" ELSE "syn"]
       ELSE /\ engine' = [engine EXCEPT ![i] = [pc |-> "raised", x |-> 0, y |-> 0]]
            /\ UNCHANGED mouse
    /\ UNCHANGED <<boot_vars, lastAbs, buttons, absent, serialized, config, mouse_speed, analog_state,
                   mouse_movement_active, mouse_vector, gamepad,
                   handler, main, lastEdge, seenY, emitsQuiet>>

\* lines 254-255: self.mouse.write(e.EV_REL, e.REL_Y, int(norm_y))
move_mouse_write_y(i) ==
    /\ main # "exited"
    /\ engine[i].pc = "write_y"
    /\ IF mouse.open
       THEN /\ mouse' = UWrite(mouse, RelY(i))
            /\ engine' = [engine EXCEPT ![i].pc = "syn"]
       ELSE /\ engine' = [engine EXCEPT ![i] = [pc |-> "raised", x |-> 0, y |-> 0]]
            /\ UNCHANGED mouse
    /\ UNCHANGED <<boot_vars, lastAbs, buttons, absent, serialized, config, mouse_speed, analog_state,
                   mouse_movement_active, mouse_vector, gamepad,
                   handler, main, lastEdge, seenY, emitsQuiet>>

\* lines 256-257: self.mouse.syn(); time.sleep(0.01)
move_mouse_syn(i) ==
    /\ main # "exited"
    /\ engine[i].pc = "syn"
    /\ IF mouse.open
       THEN /\ mouse' = USyn(mouse)
            /\ engine' = [engine EXCEPT ![i] = [pc |-> "check", x |-> 0, y |-> 0]]
            /\ emitsQuiet' = [emitsQuiet EXCEPT ![i] =
                   IF Quiet THEN (IF @ < 2 THEN @ + 1 ELSE @) ELSE 0]
       ELSE /\ engine' = [engine EXCEPT ![i] = [pc |-> "raised", x |-> 0, y |-> 0]]
            /\ UNCHANGED <<mouse, emitsQuiet>>
    /\ UNCHANGED <<boot_vars, lastAbs, buttons, absent, serialized, config, mouse_speed, analog_state,
                   mouse_movement_active, mouse_vector, gamepad,
                   handler, main, lastEdge, seenY>>

-----------------------------------------------------------------------------
(* run() and cleanup() on the main thread (lines 315-332, 339-340).  The   *)
(* callback threads and the daemon motion threads run until the process    *)
(* ends.                                                                   *)

\* lines 317-321: pause() is interrupted, finally: self.cleanup()
KeyboardInterrupt ==
    /\ main = "pause"
    /\ main' = "close_gamepad"
    /\ UNCHANGED <<boot_vars, lastAbs, buttons, absent, serialized, config, mouse_speed, analog_state,
                   mouse_movement_active, mouse_vector, gamepad, mouse,
                   handler, engine, lastEdge, seenY, emitsQuiet>>

\* lines 324-327: self.gamepad.close()
cleanup_gamepad ==
    /\ main = "close_gamepad"
    /\ gamepad' = UClose(gamepad)
    /\ main' = "close_mouse"
    /\ UNCHANGED <<boot_vars, lastAbs, buttons, absent, serialized, config, mouse_speed, analog_state,
                   mouse_movement_active, mouse_vector, mouse,
                   handler, engine, lastEdge, seenY, emitsQuiet>>

\* lines 328-332: self.mouse.close()
cleanup_mouse ==
    /\ main = "close_mouse"
    /\ mouse' = UClose(mouse)
    /\ main' = "closed"
    /\ UNCHANGED <<boot_vars, lastAbs, buttons, absent, serialized, config, mouse_speed, analog_state,
                   mouse_movement_active, mouse_vector, gamepad,
                   handler, engine, lastEdge, seenY, emitsQuiet>>

\* run() returns and the interpreter exits: every other thread ends with it
exit ==
    /\ main = "closed"
    /\ main' = "exited"
    /\ UNCHANGED <<boot_vars, lastAbs, buttons, absent, serialized, config, mouse_speed, analog_state,
                   mouse_movement_active, mouse_vector, gamepad, mouse,
                   handler, engine, lastEdge, seenY, emitsQuiet>>

-----------------------------------------------------------------------------
(* The running program: the state __init__ leaves (lines 115-128), for a   *)
(* few configurations, pointer speeds and environments.                    *)

\* __init__ has returned and run() is entered; the configuration file is
\* behind the program and plays no further part
StartedUp ==
    /\ file = [exists |-> TRUE, lines |-> <<>>]
    /\ lineno = 0
    /\ startup = "ready"
    /\ exit_status = {}
    /\ parsed = <<>>
    /\ called = <<>>

Scenarios ==
    { [config |-> << <<17, "JOY1_UP">>, <<22, "JOY1_DOWN">>, <<27, "JOY1_LEFT">> >>,
       mouse_speed |-> 5, absent |-> {}],
      [config |-> << <<17, "BTN_SOUTH">>, <<22, "BTN_SOUTH">>, <<27, "DPAD_LEFT">> >>,
       mouse_speed |-> 5, absent |-> {"BTN_DPAD_LEFT"}],
      [config |-> << <<17, "MOUSE_UP">>, <<22, "MOUSE_RIGHT">> >>,
       mouse_speed |-> 5, absent |-> {}],
      [config |-> << <<17, "MOUSE_UP">>, <<22, "MOUSE_DOWN">> >>,
       mouse_speed |-> 1, absent |-> {}],
      [config |-> << <<17, "MOUSE_LEFT">>, <<22, "MOUSE_BTN_LEFT">> >>,
       mouse_speed |-> 3, absent |-> {}],
      [config |-> << <<17, "MOUSE_UP">>, <<22, "MOUSE_UP">> >>,
       mouse_speed |-> 5, absent |-> {}] }

\* lines 120-125: the keys are getattr(e, axis, 0)
AxisKeys ==
    {IF a \notin absent THEN a ELSE "0" : a \in {"ABS_X", "ABS_Y", "ABS_RX", "ABS_RY"}}

\* lines 119-128 and the devices of setup_gamepad and setup_mouse
Constructed ==
    /\ buttons = config
    /\ StartedUp
    /\ analog_state = [k \in AxisKeys |-> 0]
    /\ lastAbs = [k \in AxisKeys |-> 0]
    /\ mouse_movement_active = [n \in {} |-> FALSE]
    /\ mouse_vector = [x |-> 0, y |-> 0]
    /\ gamepad = [open |-> TRUE, pending |-> <<>>]
    /\ mouse = [open |-> TRUE, pending |-> <<>>]
    /\ handler = [p \in Pins |->
           [pc |-> "idle", edge |-> "release", was_moving |-> FALSE,
            m |-> Taken(Bound(p))]]
    /\ engine = [i \in Engines |-> [pc |-> "dead", x |-> 0, y |-> 0]]
    /\ main = "pause"
    /\ lastEdge = <<0, "none">>
    /\ seenY = [i \in Engines |-> {}]
    /\ emitsQuiet = [i \in Engines |-> 0]

Init ==
    /\ \E sc \in Scenarios :
        /\ config = sc.config
        /\ mouse_speed = sc.mouse_speed
        /\ absent = sc.absent
    /\ serialized \in BOOLEAN
    /\ Constructed

HandlerStep(p) ==
    \/ press(p)
    \/ press_write_key(p)
    \/ press_syn(p)
    \/ press_analog_state(p)
    \/ press_analog_write(p)
    \/ press_move_vector(p)
    \/ press_was_moving(p)
    \/ press_active(p)
    \/ press_start_thread(p)
    \/ press_unhandled(p)
    \/ release(p)
    \/ release_write_key(p)
    \/ release_syn(p)
    \/ release_analog_state(p)
    \/ release_analog_write(p)
    \/ release_move_vector(p)
    \/ release_active(p)
    \/ release_unhandled(p)

EngineStep(i) ==
    \/ move_mouse_check(i)
    \/ move_mouse_read_x(i)
    \/ move_mouse_read_y(i)
    \/ move_mouse_write_x(i)
    \/ move_mouse_write_y(i)
    \/ move_mouse_syn(i)

MainStep ==
    \/ KeyboardInterrupt
    \/ cleanup_gamepad
    \/ cleanup_mouse
    \/ exit

Next ==
    \/ \E p \in Pins : HandlerStep(p)
    \/ \E i \in Engines : EngineStep(i)
    \/ MainStep

Spec == Init /\ [][Next]_vars

\* The operating system schedules every runnable thread: a motion thread
\* that can take a step takes it (time.sleep(0.01) returns).
FairSpec == Spec /\ \A i \in Engines : WF_vars(EngineStep(i))

-----------------------------------------------------------------------------
(* The gamepad device on its own: configurations that bind no mouse        *)
(* action, where press() and release() only ever take the branches of      *)
(* BUTTON_MAP and JOYSTICK_MAP and no motion thread is started.            *)

GamepadScenarios ==
    {sc \in Scenarios :
        \A k \in DOMAIN sc.config :
            sc.config[k][2] \notin MouseMoves \cup DOMAIN MouseClickAttr}

InitGamepad ==
    /\ \E sc \in GamepadScenarios :
        /\ config = sc.config
        /\ mouse_speed = sc.mouse_speed
        /\ absent = sc.absent
    /\ serialized \in BOOLEAN
    /\ Constructed

GamepadStep(p) ==
    \/ press(p)
    \/ press_write_key(p)
    \/ press_syn(p)
    \/ press_analog_state(p)
    \/ press_analog_write(p)
    \/ press_unhandled(p)
    \/ release(p)
    \/ release_write_key(p)
    \/ release_syn(p)
    \/ release_analog_state(p)
    \/ release_analog_write(p)
    \/ release_unhandled(p)

NextGamepad ==
    \/ \E p \in Pins : GamepadStep(p)
    \/ MainStep

SpecGamepad == InitGamepad /\ [][NextGamepad]_vars

-----------------------------------------------------------------------------
(* The key actions on their own: buttons, d-pad bits and mouse buttons,    *)
(* each bound to two pins or beside one another, and no move action.       *)

KeyScenarios ==
    { [config |-> << <<17, "BTN_SOUTH">>, <<22, "BTN_SOUTH">>, <<27, "DPAD_LEFT">> >>,
       mouse_speed |-> 5, absent |-> {"BTN_DPAD_LEFT"}],
      [config |-> << <<17, "MOUSE_BTN_LEFT">>, <<22, "MOUSE_BTN_LEFT">>,
                     <<27, "DPAD_UP">> >>,
       mouse_speed |-> 5, absent |-> {}],
      [config |-> << <<17, "DPAD_UP">>, <<22, "DPAD_UP">>,
                     <<27, "MOUSE_BTN_RIGHT">> >>,
       mouse_speed |-> 5, absent |-> {}] }

InitKeys ==
    /\ \E sc \in KeyScenarios :
        /\ config = sc.config
        /\ mouse_speed = sc.mouse_speed
        /\ absent = sc.absent
    /\ serialized \in BOOLEAN
    /\ Constructed

KeyStep(p) ==
    \/ press(p)
    \/ press_write_key(p)
    \/ press_syn(p)
    \/ press_unhandled(p)
    \/ release(p)
    \/ release_write_key(p)
    \/ release_syn(p)
    \/ release_unhandled(p)

NextKeys ==
    \/ \E p \in Pins : KeyStep(p)
    \/ MainStep

SpecKeys == InitKeys /\ [][NextKeys]_vars

-----------------------------------------------------------------------------
(* One motion thread on its own: the loop of move_mouse run on every       *)
(* pointer vector and a range of pointer speeds, the move actions of the   *)
(* vector held and no edge arriving.                                       *)

\* Largest pointer speed of the motion-thread specification.
MaxSpeed == 10

TickSpeeds == (0 - 2)..MaxSpeed

\* the move action that holds component c of an axis, if any
HeldFor(axis, c) ==
    IF axis = "x"
    THEN (IF c < 0 THEN {"MOUSE_LEFT"} ELSE IF c > 0 THEN {"MOUSE_RIGHT"} ELSE {})
    ELSE (IF c < 0 THEN {"MOUSE_UP"} ELSE IF c > 0 THEN {"MOUSE_DOWN"} ELSE {})

InitTick ==
    /\ absent = {}
    /\ serialized = TRUE
    /\ mouse_speed \in TickSpeeds
    /\ \E x \in {-1, 0, 1}, y \in {-1, 0, 1} :
        LET hx == HeldFor("x", x)
            hy == HeldFor("y", y)
        IN  /\ mouse_vector = [x |-> x, y |-> y]
            /\ mouse_movement_active = [n \in hx \cup hy |-> TRUE]
            /\ config = [k \in 1..Cardinality(hx \cup hy) |->
                   IF k = 1 /\ hx # {}
                   THEN <<17, CHOOSE n \in hx : TRUE>>
                   ELSE <<22, CHOOSE n \in hy : TRUE>>]
    /\ buttons = config
    /\ StartedUp
    /\ analog_state = [k \in AxisKeys |-> 0]
    /\ lastAbs = [k \in AxisKeys |-> 0]
    /\ gamepad = [open |-> TRUE, pending |-> <<>>]
    /\ mouse = [open |-> TRUE, pending |-> <<>>]
    /\ handler = [p \in Pins |->
           [pc |-> "idle", edge |-> "press", was_moving |-> FALSE,
            m |-> Taken(Bound(p))]]
    /\ engine = [i \in Engines |->
           [pc |-> IF i = 1 THEN "check" ELSE "dead", x |-> 0, y |-> 0]]
    /\ main = "pause"
    /\ lastEdge = <<0, "none">>
    /\ seenY = [i \in Engines |-> {}]
    /\ emitsQuiet = [i \in Engines |-> 0]

NextTick == \E i \in Engines : EngineStep(i)

SpecTick == InitTick /\ [][NextTick]_vars

-----------------------------------------------------------------------------
(* Configuration text.  A line is a sequence of lexemes: each character    *)
(* the parser treats specially ('#', '|', ';', ',', ':', '=', tab, space,  *)
(* newline) is a lexeme of its own, and each maximal run of other          *)
(* characters is one lexeme, a word.  strip, split and the membership      *)
(* tests of parse_config_line act on the special characters only, so they  *)
(* are computed on lexemes as the code computes them on characters; int()  *)
(* and upper() look inside words and are tabulated for the words used.     *)

Whitespace == {" ", "\t", "\n"}

\* words int() accepts, with their values (base 10, sign and leading zeros
\* allowed); int() raises ValueError on every other word
IntLiterals ==
    { <<"17", 17>>, <<"22", 22>>, <<"27", 27>>, <<"4", 4>>, <<"027", 27>>,
      <<"-1", 0 - 1>>, <<"+5", 5>>, <<"10", 10>>, <<"0", 0>>, <<"-3", 0 - 3>> }

\* str.upper() of the words that hold a lower-case letter; it leaves every
\* other word, and every special character, as it is
UpperCase ==
    { <<"btn_start", "BTN_START">>, <<"Joy1_Up", "JOY1_UP">>,
      <<"mouse_up", "MOUSE_UP">>, <<"foo", "FOO">>, <<"0x1f", "0X1F">>,
      <<"fast", "FAST">>, <<"mouse_speed", "MOUSE_SPEED">>,
      <<"trailing", "TRAILING">>, <<"text", "TEXT">>,
      <<"ignored", "IGNORED">>, <<"dpad_left", "DPAD_LEFT">> }

\* str.strip()
strip(s) ==
    LET keep == {k \in DOMAIN s : s[k] \notin Whitespace}
    IN  IF keep = {} THEN <<>>
        ELSE SubSeq(s, CHOOSE k \in keep : \A j \in keep : k <= j,
                       CHOOSE k \in keep : \A j \in keep : j <= k)

\* sep in line
contains(sep, s) == \E k \in DOMAIN s : s[k] = sep

\* line.split(sep, 1)[0]
before(sep, s) ==
    SubSeq(s, 1, (CHOOSE k \in DOMAIN s :
                     s[k] = sep /\ \A j \in 1..(k - 1) : s[j] # sep) - 1)

\* line.split(sep)
RECURSIVE split(_, _)
split(s, sep) ==
    IF ~contains(sep, s) THEN <<s>>
    ELSE LET k == Len(before(sep, s)) + 1
         IN  <<before(sep, s)>> \o split(SubSeq(s, k + 1, Len(s)), sep)

\* line.split(): on runs of whitespace, no empty strings
RECURSIVE split_whitespace(_)
split_whitespace(s) ==
    LET t == strip(s)
        ws == {k \in DOMAIN t : t[k] \in Whitespace}
    IN  IF t = <<>> THEN <<>>
        ELSE IF ws = {} THEN <<t>>
        ELSE LET k == CHOOSE i \in ws : \A j \in ws : i <= j
             IN  <<SubSeq(t, 1, k - 1)>>
                     \o split_whitespace(SubSeq(t, k + 1, Len(t)))

\* int(tok) does not raise ValueError (int() strips whitespace itself)
is_int(tok) ==
    /\ Len(strip(tok)) = 1
    /\ \E l \in IntLiterals : l[1] = strip(tok)[1]

int(tok) == (CHOOSE l \in IntLiterals : l[1] = strip(tok)[1])[2]

\* button.upper()
upper(tok) ==
    [k \in DOMAIN tok |->
        IF \E u \in UpperCase : u[1] = tok[k]
        THEN (CHOOSE u \in UpperCase : u[1] = tok[k])[2]
        ELSE tok[k]]

\* return None
NoResult == <<>>

\* lines 88-98 and 101-110: the pin is the token int() accepts, the first
\* token tried first
pin_and_button_first_only(a, b) ==
    IF is_int(a) THEN <<int(a), upper(b)>> ELSE NoResult

pin_and_button(a, b) ==
    IF is_int(a) THEN <<int(a), upper(b)>>
    ELSE IF is_int(b) THEN <<int(b), upper(a)>>
    ELSE NoResult

\* line 86: [p.strip() for p in line.split(sep) if p.strip()]
parts(line, sep) ==
    LET pieces == split(line, sep)
    IN  SelectSeq([k \in DOMAIN pieces |-> strip(pieces[k])],
                  LAMBDA piece : piece # <<>>)

\* lines 78-82: cut at the first '#', then '|', then ';'
truncate(line, sep) ==
    IF contains(sep, line) THEN strip(before(sep, line)) ELSE line

\* lines 99-111
by_whitespace(line) ==
    LET ps == split_whitespace(line)
    IN  IF Len(ps) >= 2 THEN pin_and_button(ps[1], ps[2]) ELSE NoResult

separators == <<",", ":", "=", "\t">>

\* lines 84-98: the loop over the separators from the i-th on
RECURSIVE by_separator(_, _)
by_separator(line, i) ==
    IF i > Len(separators) THEN by_whitespace(line)
    ELSE IF contains(separators[i], line)
            /\ Len(parts(line, separators[i])) >= 2
         THEN pin_and_button(parts(line, separators[i])[1],
                             parts(line, separators[i])[2])
         ELSE by_separator(line, i + 1)

parse_config_line(line) ==
    IF line = <<>> THEN NoResult
    ELSE IF strip(line) = <<>> \/ strip(line)[1] = "#" THEN NoResult
    ELSE by_separator(
             truncate(truncate(truncate(strip(line), "#"), "|"), ";"), 1)

-----------------------------------------------------------------------------
(* The program before it runs: nothing of GPIOGamepad is assigned yet.     *)

\* the fields of the program not yet made
NoFields ==
    /\ config = <<>>
    /\ mouse_speed = 0
    /\ buttons = <<>>
    /\ analog_state = <<>>
    /\ lastAbs = <<>>
    /\ mouse_movement_active = [n \in {} |-> FALSE]
    /\ mouse_vector = [x |-> 0, y |-> 0]
    /\ gamepad = [open |-> FALSE, pending |-> <<>>]
    /\ mouse = [open |-> FALSE, pending |-> <<>>]
    /\ handler = <<>>
    /\ engine = [i \in Engines |-> [pc |-> "dead", x |-> 0, y |-> 0]]
    /\ main = "init"
    /\ lastEdge = <<0, "none">>
    /\ seenY = [i \in Engines |-> {}]
    /\ emitsQuiet = [i \in Engines |-> 0]

\* every code of evdev.ecodes exists and the callbacks run one at a time
NotConstructed ==
    /\ absent = {}
    /\ serialized = TRUE
    /\ NoFields

-----------------------------------------------------------------------------
(* parse_config_line on its own: it is applied to each line of a case in   *)
(* turn.  A case is the two orders of a pin and a name around a separator. *)

\* pins as written, with the integer they denote
PinCases == { <<"17", 17>>, <<"4", 4>>, <<"027", 27>>, <<"-1", 0 - 1>> }

\* names as written, with their upper-case form; none is accepted by int()
NameCases ==
    { <<"BTN_SOUTH", "BTN_SOUTH">>, <<"btn_start", "BTN_START">>,
      <<"Joy1_Up", "JOY1_UP">>, <<"foo", "FOO">>, <<"0x1f", "0X1F">>,
      <<"5.0", "5.0">> }

\* the separator styles, bare and padded
SepStyles ==
    { <<",">>, <<":">>, <<"=">>, <<"\t">>, <<" ">>,
      <<",", " ">>, <<" ", ":", " ">>, <<" ", "=">>, <<"\t", "\t">>,
      <<" ", " ">> }

BothOrders(p, sep, n) == << <<p>> \o sep \o <<n>>, <<n>> \o sep \o <<p>> >>

\* lines that hold a separator of higher priority than the one between the
\* pin and the name
MixedCases ==
    { << <<",", " ", "17", " ", "BTN_SOUTH">>, <<"17", ":", "BTN_SOUTH", ",">> >>,
      << <<"17", ",", "foo", ":", "BTN_SOUTH">>, <<"17", ":", "foo", ",", "BTN_SOUTH">> >>,
      << <<"17", ",">>, <<"=", "17", "\t", "BTN_SOUTH">> >>,
      << <<"17", "=", "BTN_SOUTH", " ", ";", " ", "22", ",", "foo">>,
         <<":", "BTN_SOUTH", "=", "17", " ", "#", " ", "text">> >> }

ParseCases ==
    { BothOrders(p[1], sep, n[1]) :
          p \in PinCases, sep \in SepStyles, n \in NameCases } \cup MixedCases

InitParse ==
    /\ NotConstructed
    /\ \E lines \in ParseCases : file = [exists |-> TRUE, lines |-> lines]
    /\ lineno = 0
    /\ startup = "parse"
    /\ exit_status = {}
    /\ parsed = <<>>
    /\ called = <<>>

parse_line ==
    /\ startup = "parse"
    /\ Len(parsed) < Len(file.lines)
    /\ parsed' = Append(parsed, parse_config_line(file.lines[Len(parsed) + 1]))
    /\ UNCHANGED <<rt_vars, file, lineno, startup, exit_status, called>>

NextParse == parse_line

SpecParse == InitParse /\ [][NextParse]_vars

-----------------------------------------------------------------------------
(* Start-up: GPIOGamepad.__init__ on a configuration file.  The library    *)
(* constructors (UInput, Button) are taken to succeed.                     *)

\* Most lines of a configuration file of the start-up specification.
MaxLines == 2

\* lines of a configuration file without a suffix, each with the kind the
\* format gives it and with what it adds: a binding, or the integer of a
\* MOUSE_SPEED line
BareLines ==
    { [text |-> <<"17", ",", "BTN_SOUTH", "\n">>, class |-> "binding",
       binding |-> << <<17, "BTN_SOUTH">> >>, speed |-> {}],
      [text |-> <<"btn_start", ":", "27", "\n">>, class |-> "binding",
       binding |-> << <<27, "BTN_START">> >>, speed |-> {}],
      [text |-> <<"22", " ", "mouse_up", "\n">>, class |-> "binding",
       binding |-> << <<22, "MOUSE_UP">> >>, speed |-> {}],
      [text |-> <<"JOY1_UP", "=", "17">>, class |-> "binding",
       binding |-> << <<17, "JOY1_UP">> >>, speed |-> {}],
      [text |-> <<"MOUSE_SPEED", "=", "10", "\n">>, class |-> "setting",
       binding |-> <<>>, speed |-> {10}],
      [text |-> <<"MOUSE_SPEED", "=", "0", "\n">>, class |-> "setting",
       binding |-> <<>>, speed |-> {0}],
      [text |-> <<"MOUSE_SPEED", "=", "-3", "\n">>, class |-> "setting",
       binding |-> <<>>, speed |-> {0 - 3}],
      [text |-> <<"MOUSE_SPEED", "=", "fast", "\n">>, class |-> "setting",
       binding |-> <<>>, speed |-> {}],
      [text |-> <<"#", " ", "17", ",", "BTN_SOUTH", "\n">>, class |-> "comment",
       binding |-> <<>>, speed |-> {}],
      [text |-> <<"\n">>, class |-> "empty", binding |-> <<>>, speed |-> {}],
      [text |-> <<" ", "\t", "\n">>, class |-> "empty",
       binding |-> <<>>, speed |-> {}],
      [text |-> <<"BTN_SOUTH", "\n">>, class |-> "malformed",
       binding |-> <<>>, speed |-> {}],
      [text |-> <<"foo", ",", "BTN_SOUTH", "\n">>, class |-> "malformed",
       binding |-> <<>>, speed |-> {}],
      [text |-> <<"17", ",", "foo", "\n">>, class |-> "unknown",
       binding |-> <<>>, speed |-> {}] }

\* an inline comment and the two modifier suffixes
Suffixes ==
    { <<" ", "#", " ", "trailing", " ", "text">>,
      <<" ", "|", " ", "ignored">>,
      <<";", " ", "ignored">> }

\* the lines that are also written with each suffix
SuffixBase ==
    { <<"17", ",", "BTN_SOUTH", "\n">>, <<"btn_start", ":", "27", "\n">>,
      <<"MOUSE_SPEED", "=", "10", "\n">> }

\* a line with a suffix put before its newline
WithSuffix(text, suffix) ==
    SubSeq(text, 1, Len(text) - 1) \o suffix \o <<"\n">>

\* a suffixed line is of the kind of the line it extends and adds the same
SuffixedLines ==
    { [text |-> WithSuffix(l.text, suffix), class |-> l.class,
       binding |-> l.binding, speed |-> l.speed] :
          l \in {b \in BareLines : b.text \in SuffixBase}, suffix \in Suffixes }

LoadLines == BareLines \cup SuffixedLines

\* a text can go on after a line that ends in a newline
Ended(t) == t = <<>> \/ t[Len(t)][Len(t[Len(t)])] = "\n"

\* the texts of at most n lines
RECURSIVE Texts(_)
Texts(n) ==
    IF n = 0 THEN {<<>>}
    ELSE Texts(n - 1)
         \cup {Append(t, l.text) :
                   t \in {u \in Texts(n - 1) : Ended(u)}, l \in LoadLines}

Files ==
    {[exists |-> FALSE, lines |-> <<>>]}
        \cup {[exists |-> TRUE, lines |-> t] : t \in Texts(MaxLines)}

InitLoad ==
    /\ NotConstructed
    /\ file \in Files
    /\ lineno = 0
    /\ startup = "open"
    /\ exit_status = {}
    /\ parsed = <<>>
    /\ called = <<>>

\* sys.exit(1)
sys_exit ==
    /\ startup' = "exit"
    /\ exit_status' = {1}
    /\ main' = "exited"

\* lines 131-134 and 154-156: config = [], mouse_speed = 5, open()
load_config_open ==
    /\ startup = "open"
    /\ config' = <<>>
    /\ mouse_speed' = 5
    /\ IF file.exists
       THEN startup' = "read" /\ UNCHANGED <<exit_status, main>>
       ELSE sys_exit
    /\ UNCHANGED <<called, lastAbs, file, lineno, parsed, buttons, absent, serialized,
                   analog_state, mouse_movement_active, mouse_vector,
                   gamepad, mouse, handler, engine, lastEdge, seenY,
                   emitsQuiet>>

\* line 136: raw.strip().startswith('MOUSE_SPEED=')
is_setting(raw) ==
    /\ Len(strip(raw)) >= 2
    /\ strip(raw)[1] = "MOUSE_SPEED"
    /\ strip(raw)[2] = "="

\* line 138: raw.strip().split('=')[1]
setting_value(raw) == split(strip(raw), "=")[2]

\* line 149: button in BUTTON_MAP or button in JOYSTICK_MAP or button in MOUSE_MAP
registered(button) ==
    /\ Len(button) = 1
    /\ button[1] \in DOMAIN BUTTON_MAP \cup DOMAIN JOYSTICK_MAP
                         \cup DOMAIN MOUSE_MAP

\* line 148: button.split()[0].upper()
first_word(button) == upper(split_whitespace(button)[1])

\* lines 135-153: one pass of the loop over the lines of the file
load_config_line ==
    /\ startup = "read"
    /\ lineno < Len(file.lines)
    /\ lineno' = lineno + 1
    /\ LET raw == file.lines[lineno + 1]
           result == parse_config_line(raw)
       IN  IF is_setting(raw)
           THEN /\ mouse_speed' = IF is_int(setting_value(raw))
                                  THEN int(setting_value(raw))
                                  ELSE mouse_speed
                /\ UNCHANGED config
           ELSE /\ config' = IF result # NoResult
                                /\ registered(first_word(result[2]))
                             THEN Append(config,
                                      <<result[1], first_word(result[2])[1]>>)
                             ELSE config
                /\ UNCHANGED mouse_speed
    /\ UNCHANGED <<called, lastAbs, file, startup, exit_status, parsed, buttons, absent,
                   serialized, analog_state, mouse_movement_active,
                   mouse_vector, gamepad, mouse, handler, engine, main,
                   lastEdge, seenY, emitsQuiet>>

\* line 157: not config
not_config_never(c) == FALSE

not_config(c) == c = <<>>

\* lines 157-161: after the last line
load_config_return ==
    /\ startup = "read"
    /\ lineno = Len(file.lines)
    /\ IF not_config(config)
       THEN sys_exit
       ELSE startup' = "setup_gamepad" /\ UNCHANGED <<exit_status, main>>
    /\ UNCHANGED <<called, lastAbs, file, lineno, parsed, config, mouse_speed, buttons, absent,
                   serialized, analog_state, mouse_movement_active,
                   mouse_vector, gamepad, mouse, handler, engine, lastEdge,
                   seenY, emitsQuiet>>

\* line 177: self.gamepad = UInput(...)
setup_gamepad ==
    /\ startup = "setup_gamepad"
    /\ gamepad' = [open |-> TRUE, pending |-> <<>>]
    /\ startup' = "setup_mouse"
    /\ UNCHANGED <<called, lastAbs, file, lineno, exit_status, parsed, config, mouse_speed,
                   buttons, absent, serialized, analog_state,
                   mouse_movement_active, mouse_vector, mouse, handler,
                   engine, main, lastEdge, seenY, emitsQuiet>>

\* line 186: self.mouse = UInput(...)
\* lines 182-185: e.REL_X, e.BTN_LEFT, ... are read without a default, so a
\* code that does not exist raises AttributeError, which nothing catches
MouseCapCodes == {"BTN_LEFT", "BTN_RIGHT", "BTN_MIDDLE"}

setup_mouse ==
    /\ startup = "setup_mouse"
    /\ IF MouseCapCodes \cap absent = {}
       THEN /\ mouse' = [open |-> TRUE, pending |-> <<>>]
            /\ startup' = "fields"
       ELSE /\ startup' = "raised"
            /\ UNCHANGED mouse
    /\ UNCHANGED <<called, lastAbs, file, lineno, exit_status, parsed, config, mouse_speed,
                   buttons, absent, serialized, analog_state,
                   mouse_movement_active, mouse_vector, gamepad, handler,
                   engine, main, lastEdge, seenY, emitsQuiet>>

\* lines 118-127
init_fields ==
    /\ startup = "fields"
    /\ buttons' = <<>>
    /\ analog_state' = [k \in AxisKeys |-> 0]
    /\ lastAbs' = [k \in AxisKeys |-> 0]
    /\ mouse_movement_active' = [n \in {} |-> FALSE]
    /\ mouse_vector' = [x |-> 0, y |-> 0]
    /\ startup' = "setup_buttons"
    /\ UNCHANGED <<called, file, lineno, exit_status, parsed, config, mouse_speed,
                   absent, serialized, gamepad, mouse, handler, engine, main,
                   lastEdge, seenY, emitsQuiet>>

\* lines 191-196: one pass of the loop, a Button made and its callbacks bound
\* (handler keeps one call record per pin, that of the first Button made
\* for it; the callbacks of every Button of a pin are those of pin_edge)
setup_buttons ==
    /\ startup = "setup_buttons"
    /\ Len(buttons) < Len(config)
    /\ buttons' = Append(buttons, config[Len(buttons) + 1])
    /\ handler' = [p \in {buttons'[i][1] : i \in DOMAIN buttons'} |->
           [pc |-> "idle", edge |-> "release", was_moving |-> FALSE,
            m |-> Taken(
                buttons'[CHOOSE i \in DOMAIN buttons' : buttons'[i][1] = p][2])]]
    /\ UNCHANGED <<called, lastAbs, file, lineno, startup, exit_status, parsed, config,
                   mouse_speed, absent, serialized, analog_state,
                   mouse_movement_active, mouse_vector, gamepad, mouse,
                   engine, main, lastEdge, seenY, emitsQuiet>>

\* line 197 and run(): the constructor returns and the main thread pauses
setup_buttons_ready ==
    /\ startup = "setup_buttons"
    /\ Len(buttons) = Len(config)
    /\ startup' = "ready"
    /\ main' = "pause"
    /\ UNCHANGED <<called, lastAbs, file, lineno, exit_status, parsed, config, mouse_speed,
                   buttons, absent, serialized, analog_state,
                   mouse_movement_active, mouse_vector, gamepad, mouse,
                   handler, engine, lastEdge, seenY, emitsQuiet>>

\* An edge on a pin of the started program: every Button made for the pin
\* has callbacks of its own (lines 192-195), and each of them calls the
\* press() of the name it was bound to.
pin_edge ==
    /\ startup = "ready"
    /\ called = <<>>
    /\ \E pin \in Pins : called' = SelectSeq(buttons, LAMBDA b : b[1] = pin)
    /\ UNCHANGED <<rt_vars, file, lineno, startup, exit_status, parsed>>

NextLoad ==
    \/ pin_edge
    \/ load_config_open
    \/ load_config_line
    \/ load_config_return
    \/ setup_gamepad
    \/ setup_mouse
    \/ init_fields
    \/ setup_buttons
    \/ setup_buttons_ready

SpecLoad == InitLoad /\ [][NextLoad]_vars

-----------------------------------------------------------------------------
(* Start-up and dispatch where some codes of evdev.ecodes do not exist.    *)

\* configuration files with the bindings their lines declare
AbsentFiles ==
    { [text |-> << <<"17", ",", "BTN_SOUTH", "\n">>,
                   <<"22", " ", "dpad_left", "\n">>,
                   <<"JOY1_UP", "=", "27", "\n">> >>,
       bindings |-> << <<17, "BTN_SOUTH">>, <<22, "DPAD_LEFT">>,
                       <<27, "JOY1_UP">> >>],
      [text |-> << <<"btn_start", ":", "17", "\n">>,
                   <<"22", ",", "MOUSE_BTN_LEFT", "\n">>,
                   <<"27", "\t", "JOY2_LEFT", "\n">> >>,
       bindings |-> << <<17, "BTN_START">>, <<22, "MOUSE_BTN_LEFT">>,
                       <<27, "JOY2_LEFT">> >>] }

\* the codes the installed evdev lacks
AbsentCases ==
    { {}, {"BTN_SOUTH", "BTN_DPAD_LEFT", "ABS_Y"}, {"BTN_START", "ABS_RX"},
      {"BTN_DPAD_LEFT"}, {"BTN_LEFT"} }

InitAbsent ==
    /\ absent \in AbsentCases
    /\ serialized \in BOOLEAN
    /\ NoFields
    /\ \E f \in AbsentFiles : file = [exists |-> TRUE, lines |-> f.text]
    /\ lineno = 0
    /\ startup = "open"
    /\ exit_status = {}
    /\ parsed = <<>>
    /\ called = <<>>

NextAbsent ==
    \/ NextLoad
    \/ startup = "ready" /\ \E p \in Pins : GamepadStep(p)

SpecAbsent == InitAbsent /\ [][NextAbsent]_vars

-----------------------------------------------------------------------------
(* Properties of the router and the motion thread.                         *)

AllIdle == \A p \in Pins : Idle(p)

AnalogPins == {p \in Pins : handler[p].m.kind = "analog"}

MovePins == {p \in Pins : handler[p].m.kind = "move"}

\* pins whose move action is held: pressed, the press() returned, not released
HeldMovePins == {p \in MovePins : handler[p].edge = "press" /\ Idle(p)}

\* the events of thread t in a device's open batch
EventsBy(dev, t) == SelectSeq(dev.pending, LAMBDA ev : ev.by = t)

\* the absolute-axis event of pin p with the value v
AbsEvent(p, v) ==
    [by |-> PinThread(p), type |-> "EV_ABS", code |-> JoyAxis[Bound(p)], value |-> v]

\* what the registry asks of an edge on an analog pin: sign * 32767 on a
\* press, 0 on a release
Extreme(p, edge) == IF edge = "press" THEN JoyDir[Bound(p)] * 32767 ELSE 0

\* the store of an analog press or release puts exactly the asked value on
\* the axis
C1_StoreStep ==
    \A p \in AnalogPins :
        handler[p].pc = "axis" /\ handler'[p].pc = "abs" =>
            analog_state'[JoyAxis[Bound(p)]] = Extreme(p, handler[p].edge)

\* its write queues one absolute-axis event of that value on the open
\* gamepad, and no other step of the call queues anything
C1_WriteStep ==
    \A p \in AnalogPins :
        /\ handler[p].pc = "abs" /\ handler'[p].pc = "syn" =>
               gamepad'.pending =
                   Append(gamepad.pending, AbsEvent(p, Extreme(p, handler[p].edge)))
        /\ handler[p].pc # "abs" /\ handler'[p] # handler[p] =>
               EventsBy(gamepad', PinThread(p)) \in
                   {EventsBy(gamepad, PinThread(p)), <<>>}

\* once the call of the edge delivered last has returned, with no call
\* overlapping it, the axis holds the value of that edge, whatever other
\* direction of the axis is still held
C1_LastWins ==
    \A p \in AnalogPins :
        serialized /\ AllIdle /\ lastEdge[1] = p =>
            analog_state[JoyAxis[Bound(p)]] = Extreme(p, lastEdge[2])

\* C1: pressing an analog direction sets its axis to sign * 32767 and writes
\* one absolute-axis event of that value, releasing it sets the axis to 0 and
\* writes one event of value 0, and of two directions of one axis pressed one
\* after the other the one pressed last decides the axis.
C1_AnalogPressRelease ==
    /\ [][C1_StoreStep /\ C1_WriteStep]_vars
    /\ [](C1_LastWins /\ \A p \in AnalogPins : Len(EventsBy(gamepad, PinThread(p))) <= 1)

\* JOY1_UP (pin 17) is held, JOY1_DOWN (pin 22) was pressed after it and its
\* press() has returned: ABS_Y is at +32767
C1_Witness ==
    /\ serialized /\ AllIdle
    /\ Bound(17) = "JOY1_UP" /\ Bound(22) = "JOY1_DOWN"
    /\ handler[17].edge = "press" /\ handler[22].edge = "press"
    /\ lastEdge = <<22, "press">>
    /\ analog_state["ABS_Y"] = 32767

\* C2: with the callbacks serialized and a move action held, a pass of the
\* motion loop that reads the pointer vector as it stands writes at least
\* one relative-motion event (it does not skip to the sleep).
C2_EveryTickEmits ==
    [][\A i \in Engines :
          /\ serialized /\ AllIdle /\ HeldMovePins # {}
          /\ engine[i].pc = "read_y"
          /\ engine[i].x = mouse_vector.x
          => engine'[i].pc # "check"]_vars

\* at most one flush per motion thread after the active set went empty
C3_OneMoreEmission == \A i \in Engines : emitsQuiet[i] <= 1

\* the loop check of a motion thread that finds no active entry ends the
\* thread, and nothing but that check ends it while the process runs
C3_StopsAtCheck ==
    \A i \in Engines :
        /\ engine[i].pc = "check" /\ engine'[i] # engine[i] /\ ~AnyActive =>
               engine'[i].pc = "dead"
        /\ Alive(i) /\ engine'[i].pc = "dead" =>
               engine[i].pc = "check" /\ ~AnyActive

Running(i) == Alive(i) /\ main # "exited"

\* C3: once no move action is active and no press of one is under way, every
\* motion thread flushes at most once more, ends at its next loop check, and
\* does end unless a press follows.
C3_EngineStops ==
    /\ []C3_OneMoreEmission
    /\ [][C3_StopsAtCheck]_vars
    /\ \A i \in Engines : (Quiet /\ Running(i)) ~> (~Running(i) \/ ~Quiet)

\* a motion thread has flushed once after the last release and has ended
C3_Witness ==
    /\ Quiet /\ AllIdle /\ main = "pause"
    /\ \E n \in DOMAIN mouse_movement_active : TRUE
    /\ \E i \in Engines : emitsQuiet[i] = 1 /\ engine[i].pc = "dead"

\* C4: at most one motion loop runs at any time.  Stated for callbacks that
\* never overlap, where only the timing of the loop's own check is left: a
\* release followed by a press while the old loop sleeps.
C4_SingleEngine == serialized => Cardinality({i \in Engines : Alive(i)}) <= 1

\* a relative-motion event of motion thread i
Rel(i, code, value) ==
    [by |-> EngineThread(i), type |-> "EV_REL", code |-> code, value |-> value]

\* C5: with a positive pointer speed s, a pass over a vector with both
\* components set queues dx then dy with |dx| = |dy| = the largest k with
\* 2*k*k <= s*s, each with the sign of its component, so dx*dx + dy*dy <= s*s;
\* a pass over a vector with one component set queues sign*s on that axis
\* and nothing on the other.
C5_TickDeltas ==
    \A i \in Engines :
        engine[i].pc = "syn" /\ mouse_speed > 0 =>
            LET x == engine[i].x
                y == engine[i].y
                s == mouse_speed
                evs == mouse.pending
            IN  IF x # 0 /\ y # 0
                THEN \E k \in 0..s :
                        /\ 2 * k * k <= s * s
                        /\ 2 * (k + 1) * (k + 1) > s * s
                        /\ evs = <<Rel(i, "REL_X", x * k), Rel(i, "REL_Y", y * k)>>
                        /\ (x * k) * (x * k) + (y * k) * (y * k) <= s * s
                ELSE IF x # 0
                THEN evs = <<Rel(i, "REL_X", x * s)>>
                ELSE evs = <<Rel(i, "REL_Y", y * s)>>

\* up and right held at speed 5: the pass has queued REL_X 3 and REL_Y -3
C5_Witness ==
    /\ mouse_speed = 5
    /\ engine[1] = [pc |-> "syn", x |-> 1, y |-> -1]
    /\ mouse.pending = <<Rel(1, "REL_X", 3), Rel(1, "REL_Y", -3)>>

\* the events a thread wrote for the operation it is flushing
FlushedByHandler(p, dev) ==
    /\ Len(dev.pending) = 1
    /\ dev.pending[1].by = PinThread(p)

FlushedByEngine(i) ==
    mouse.pending =
        (IF engine[i].x # 0 THEN <<RelX(i)>> ELSE <<>>)
        \o (IF engine[i].y # 0 THEN <<RelY(i)>> ELSE <<>>)

\* C6: every flush closes a batch that holds the events of the flushing
\* operation and nothing else: one event of a press or release, the one or
\* two events of one pass of the motion loop.  Stated for callbacks that
\* never overlap: the motion thread still runs beside them.
C6_OneOperationPerBatch ==
    [][serialized =>
       /\ \A p \in Pins :
            handler[p].pc = "syn" /\ handler'[p].pc = "idle" =>
                FlushedByHandler(p, IF handler[p].m.kind = "click"
                                    THEN mouse ELSE gamepad)
       /\ \A i \in Engines :
            engine[i].pc = "syn" /\ engine'[i].pc = "check" => FlushedByEngine(i)]_vars

\* the pair a pass of the loop computes with was the pointer vector at one
\* instant between its two reads
C7_NoTornRead ==
    [][\A i \in Engines :
          serialized /\ engine[i].pc = "read_y" /\ engine'[i].pc # "read_y" =>
              mouse_vector.y \in seenY[i]]_vars

\* the loop check never runs between the vector store and the active-set
\* store of one press() or release()
C7_NoPartialUpdate ==
    [][\A i \in Engines :
          serialized /\ engine[i].pc = "check" /\ engine'[i] # engine[i] =>
              \A p \in MovePins : handler[p].pc \notin {"was_moving", "active"}]_vars

\* C7: the motion thread never computes with a torn pointer vector and never
\* checks an active set that is half-way through a handler's update.  Stated
\* for callbacks that never overlap.
C7_ConsistentReads == C7_NoTornRead /\ C7_NoPartialUpdate

\* C8: once shutdown has begun no edge is accepted, nothing is written or
\* flushed on either device, and no thread uses a released handle.
C8_QuietShutdown ==
    [][main # "pause" =>
          /\ gamepad'.pending = gamepad.pending
          /\ mouse'.pending = mouse.pending
          /\ lastEdge' = lastEdge
          /\ \A p \in Pins : handler'[p].pc = "raised" => handler[p].pc = "raised"
          /\ \A i \in Engines : engine'[i].pc = "raised" => engine[i].pc = "raised"]_vars

-----------------------------------------------------------------------------
(* Properties of start-up and of the configuration parser.                 *)

\* the file holds no line the format counts as a binding
NoBindingLine ==
    \A k \in DOMAIN file.lines :
        \E l \in LoadLines : l.text = file.lines[k] /\ l.class # "binding"

Created == gamepad.open \/ mouse.open \/ buttons # <<>> \/ handler # <<>>

\* C9: once load_config is over, start-up has exited with status 1 exactly
\* when the configuration file is missing or holds no binding line (only
\* empty, comment, malformed, setting or unknown-action lines), and in that
\* case no device was created and no callback attached; in every other case
\* start-up is past load_config with no exit.  Nothing is created while
\* the file is still being read.
C9_FatalStartup ==
    /\ exit_status \in {{}, {1}}
    /\ startup \notin {"open", "read"} =>
           (exit_status = {1} <=> (~file.exists \/ NoBindingLine))
    /\ exit_status = {} /\ startup \notin {"open", "read"} =>
           startup \in {"setup_gamepad", "setup_mouse", "fields",
                        "setup_buttons", "ready"}
    /\ exit_status = {1} \/ startup \in {"open", "read"} => ~Created

\* start-up has ended fatally on a file of an unknown action and a bad setting
C9_Witness ==
    /\ exit_status = {1}
    /\ file = [exists |-> TRUE,
               lines |-> << <<"17", ",", "foo", "\n">>,
                            <<"MOUSE_SPEED", "=", "fast", "\n">> >>]
    /\ startup = "exit"

\* C10: for a pin p, a name n that int() does not accept and each separator
\* style (',', ':', '=', tab, whitespace, bare or padded), parse_config_line
\* returns (p, upper-cased n) for "p<sep>n" and the same pair for "n<sep>p".
C10_OrderSymmetry ==
    \A p \in PinCases, n \in NameCases, sep \in SepStyles :
        file.lines = BothOrders(p[1], sep, n[1]) /\ Len(parsed) = 2 =>
            /\ parsed[1] = <<p[2], <<n[2]>> >>
            /\ parsed[2] = parsed[1]

\* both orders of "027" and "btn_start" around '=' are parsed
C10_Witness ==
    /\ file.lines = << <<"027", "=", "btn_start">>, <<"btn_start", "=", "027">> >>
    /\ parsed = << <<27, <<"BTN_START">> >>, <<27, <<"BTN_START">> >> >>

\* the record of a line of the file
Line(text) == CHOOSE l \in LoadLines : l.text = text

\* the bindings the lines of a text add, in order
RECURSIVE DeclaredConfig(_)
DeclaredConfig(lines) ==
    IF lines = <<>> THEN <<>>
    ELSE Line(Head(lines)).binding \o DeclaredConfig(Tail(lines))

\* the integer of the last MOUSE_SPEED line that carries one, else 5
RECURSIVE DeclaredSpeed(_)
DeclaredSpeed(lines) ==
    IF lines = <<>> THEN 5
    ELSE IF Line(lines[Len(lines)]).speed # {}
         THEN CHOOSE v \in Line(lines[Len(lines)]).speed : TRUE
         ELSE DeclaredSpeed(SubSeq(lines, 1, Len(lines) - 1))

\* load_config has returned
Loaded == file.exists /\ startup \notin {"open", "read", "exit"}

\* C11: a line with an inline comment or a modifier suffix appended adds to
\* the loaded configuration what the line without it adds: once load_config
\* has returned, config holds the bindings of the lines without their suffixes and
\* mouse_speed the integer of the last MOUSE_SPEED line without its suffix.
C11_SuffixNeutral ==
    Loaded => /\ config = DeclaredConfig(file.lines)
              /\ mouse_speed = DeclaredSpeed(file.lines)

\* C12: once load_config has returned, mouse_speed is a positive integer; it
\* is 5 when no line of the file carries an integer for it, and a MOUSE_SPEED
\* line without one does not keep the lines after it from adding their
\* bindings.
C12_PositiveSpeed ==
    Loaded => /\ mouse_speed > 0
              /\ (\A k \in DOMAIN file.lines : Line(file.lines[k]).speed = {})
                     => mouse_speed = 5
              /\ config = DeclaredConfig(file.lines)

\* the last Button made for the pin of the button b
LastRegistration(b) ==
    buttons[CHOOSE k \in DOMAIN buttons :
                /\ buttons[k][1] = b[1]
                /\ \A j \in DOMAIN buttons : buttons[j][1] = b[1] => j <= k]

\* C13: lines that bind a pin already bound are kept, in the order of the
\* file, in config and in the Buttons made from it, and an edge on a pin
\* calls the callback of the last Button made for the pin and no other.
C13_LastRegistrationWins ==
    /\ Loaded => config = DeclaredConfig(file.lines)
    /\ startup = "ready" => buttons = config
    /\ called # <<>> => called = <<LastRegistration(called[1])>>

\* the code of a key action, as the registry names it
KeyCode(n) ==
    IF n \in DOMAIN DpadAttr THEN DpadAttr[n]
    ELSE IF n \in DOMAIN MouseClickAttr THEN MouseClickAttr[n]
    ELSE n

\* pins bound to a button, a d-pad bit or a mouse button whose code exists
KeyPins ==
    {p \in Pins :
        /\ Bound(p) \in DOMAIN BUTTON_MAP \cup DOMAIN MouseClickAttr
        /\ KeyCode(Bound(p)) \notin absent}

\* the device of a key action, now and after the step
KeyDevice(p) == IF Bound(p) \in DOMAIN MouseClickAttr THEN mouse ELSE gamepad

KeyDeviceNext(p) == IF Bound(p) \in DOMAIN MouseClickAttr THEN mouse' ELSE gamepad'

KeyEvent(p, edge) ==
    [by |-> PinThread(p), type |-> "EV_KEY", code |-> KeyCode(Bound(p)),
     value |-> IF edge = "press" THEN 1 ELSE 0]

\* every edge on a key pin starts a call that goes to the write, whatever
\* was emitted before
C14_NeverSuppressed ==
    \A p \in KeyPins :
        handler[p].pc = "idle" /\ handler'[p].pc # "idle" =>
            handler'[p].pc = "write"

\* on an open device the call writes one key event, 1 for a press and 0 for
\* a release, then flushes and returns; no other step of it queues anything
C14_WriteThenFlush ==
    \A p \in KeyPins :
        /\ handler[p].pc = "write" /\ handler'[p] # handler[p] /\ KeyDevice(p).open =>
               /\ KeyDeviceNext(p).pending =
                      Append(KeyDevice(p).pending, KeyEvent(p, handler[p].edge))
               /\ handler'[p].pc = "syn"
        /\ handler[p].pc = "syn" /\ handler'[p] # handler[p] /\ KeyDevice(p).open =>
               /\ KeyDeviceNext(p).pending = <<>>
               /\ handler'[p].pc = "idle"
        /\ handler[p].pc \notin {"write", "syn"} /\ handler'[p] # handler[p] =>
               /\ gamepad' = gamepad
               /\ mouse' = mouse

\* C14: for a button, d-pad bit or mouse button whose code exists, every
\* press writes one key-down and flushes and every release writes one key-up
\* and flushes, while the device is open; a press is not held back because
\* the action is already pressed through another pin.
C14_KeyEveryEdge == [][C14_NeverSuppressed /\ C14_WriteThenFlush]_vars

\* BTN_SOUTH is held through pin 17 and the press of pin 22, bound to it as
\* well, has written its key-down
C14_Witness ==
    /\ Bound(17) = "BTN_SOUTH" /\ Bound(22) = "BTN_SOUTH"
    /\ handler[17].edge = "press" /\ handler[17].pc = "idle"
    /\ handler[22].edge = "press" /\ handler[22].pc = "syn"
    /\ gamepad.pending = <<KeyEvent(22, "press")>>

\* C15: while the program runs, when every handler has returned and some
\* move action is marked active, a motion thread is alive; this holds also
\* when handlers for different pins overlapped.
C15_HeldMeansEngine ==
    AllIdle /\ AnyActive /\ main = "pause" => \E i \in Engines : Alive(i)

\* C16: with a positive pointer speed, no relative-motion event queued on
\* the mouse has the value 0, and a pass that read the vector (0, 0) neither
\* writes nor flushes.
C16_NoZeroDelta ==
    mouse_speed > 0 =>
        /\ \A k \in DOMAIN mouse.pending :
               mouse.pending[k].type = "EV_REL" => mouse.pending[k].value # 0
        /\ \A i \in Engines :
               engine[i].pc \in {"write_x", "write_y", "syn"} =>
                   engine[i].x # 0 \/ engine[i].y # 0

\* the line as the separators see it: stripped and cut at '#', '|', ';'
Truncated(line) == truncate(truncate(truncate(strip(line), "#"), "|"), ";")

\* the separators present in a line, by their place in the priority order
Present(line) == {i \in DOMAIN separators : contains(separators[i], line)}

\* the result when only the first separator present is used
FirstSeparatorOnly(line) ==
    LET i == CHOOSE i \in Present(line) : \A j \in Present(line) : i <= j
        ps == parts(line, separators[i])
    IN  IF Len(ps) >= 2 THEN pin_and_button(ps[1], ps[2]) ELSE NoResult

\* C17: a line that, once truncated, holds one of ',', ':', '=', tab is
\* split on the first of them in that order alone; with two tokens or more
\* the first two give the result, with fewer the result is None.
C17_FirstSeparatorOnly ==
    \A k \in DOMAIN parsed :
        LET line == Truncated(file.lines[k])
        IN  Present(line) # {} => parsed[k] = FirstSeparatorOnly(line)

\* the names of the registry whose code evdev.ecodes lacks
CodeOf(n) ==
    IF n \in DOMAIN JoyAxis THEN JoyAxis[n] ELSE KeyCode(n)

AbsentNames ==
    {n \in PlainButtons \cup DOMAIN DpadAttr \cup DOMAIN JoyAxis
             \cup DOMAIN MouseClickAttr : CodeOf(n) \in absent}

\* pins of the started program bound to a name whose code is absent
AbsentPins == {p \in Pins : Bound(p) \in AbsentNames}

\* load_config keeps the bindings of the file whatever codes are absent
C18_Accepted ==
    \A f \in AbsentFiles :
        file.lines = f.text /\ startup \notin {"open", "read"} =>
            config = f.bindings

\* a step of press() or release() on a pin whose code is absent: the call
\* goes to the unhandled message and returns, and nothing else changes
C18_Inert ==
    startup = "ready" /\ startup' = "ready" =>
        \A p \in AbsentPins :
            handler'[p] # handler[p] =>
                /\ handler[p].pc = "idle" => handler'[p].pc = "unhandled"
                /\ handler[p].pc # "idle" =>
                       handler[p].pc = "unhandled" /\ handler'[p].pc = "idle"
                /\ UNCHANGED <<gamepad, mouse, analog_state, lastAbs,
                               mouse_vector, mouse_movement_active, engine>>

\* C18: a binding whose code the installed evdev lacks is kept by
\* load_config, and every press and release of it only reports the edge as
\* unhandled and returns: no write, no flush, no change of analog_state,
\* mouse_vector or mouse_movement_active.
C18_AbsentAccepted == []C18_Accepted /\ [][C18_Inert]_vars

\* BTN_SOUTH, BTN_DPAD_LEFT and ABS_Y are absent; pins 17 and 22 are pressed
\* and pin 27 was pressed and released, with nothing written
C18_Witness ==
    /\ absent = {"BTN_SOUTH", "BTN_DPAD_LEFT", "ABS_Y"}
    /\ startup = "ready"
    /\ config = << <<17, "BTN_SOUTH">>, <<22, "DPAD_LEFT">>, <<27, "JOY1_UP">> >>
    /\ handler[17].edge = "press" /\ handler[22].edge = "press"
    /\ lastEdge = <<27, "release">>
    /\ AllIdle
    /\ gamepad.pending = <<>>
    /\ analog_state = [k \in AxisKeys |-> 0]

\* C19: while the program runs and no press or release of a stick
\* direction is under way, analog_state[axis] is the value of the last
\* EV_ABS event written for the axis (0 if none) and is one of -32767, 0,
\* 32767; this holds also after handlers of two pins on one axis overlapped.
C19_AxisStateIsLastEvent ==
    main = "pause" /\ (\A p \in AnalogPins : Idle(p)) =>
        \A k \in DOMAIN analog_state :
            /\ analog_state[k] = lastAbs[k]
            /\ analog_state[k] \in {0 - AXIS_MAX, 0, AXIS_MAX}

\* C20: when no press or release of a move action is under way and no move
\* action is marked active, mouse_vector is (0, 0).
C20_VectorAtRest ==
    (\A p \in MovePins : Idle(p)) /\ ~AnyActive =>
        mouse_vector = [x |-> 0, y |-> 0]

====
